---- MODULE Spec2Model ----
(***************************************************************************)
(* A model of restate_client: the dynamic-dispatch service proxies         *)
(* (RestateService, RestateAsyncService), the Singleton metaclass and the  *)
(* invocation-control operations of RestateClient and RestateAsyncClient.  *)
(*                                                                         *)
(* Strings are TLC strings: an f-string is the concatenation (\o) of its   *)
(* pieces.  Python's None is the sentinel NONE for optional strings and    *)
(* the record field given = FALSE for an optional payload.                 *)
(*                                                                         *)
(* The HTTP libraries (requests, urllib3, aiohttp) are the environment:    *)
(* a request that was issued is answered by a response or by a transport   *)
(* exception chosen nondeterministically.                                  *)
(***************************************************************************)
EXTENDS Integers, Sequences, FiniteSets, TLC

VARIABLES
    pc,          \* caller -> position of the caller in its current call
    call,        \* caller -> the entry point called and its arguments
    op,          \* caller -> the method whose body is executing
    req,         \* caller -> the HTTP request the call issued (NoReq if none)
    nreq,        \* caller -> number of HTTP requests the call has issued
    resp,        \* caller -> what the transport answered (NoResp if nothing yet)
    outcome,     \* caller -> what the call returned or raised
    url_field,   \* object -> its _url attribute
    session,     \* object -> its session (0 is None, n > 0 the n-th built)
    n_sessions,  \* object -> number of sessions constructed for the object
    default_headers, \* object -> the idempotency-key entry of the headers its
                 \* session sends with every request (NONE: no such entry)
    instances,   \* Singleton._instances: class -> instance (0 is absent)
    n_created,   \* class -> number of instances ever constructed
    ctor_pc,     \* thread -> position inside Singleton.__call__
    ctor_cls,    \* thread -> class being constructed
    ctor_new,    \* thread -> instance built by this thread (0 if none)
    returned     \* class -> the instances constructor calls have returned

callVars == <<pc, call, op, req, nreq, resp, outcome>>
objVars  == <<url_field, session, n_sessions, default_headers>>
ctorVars == <<instances, n_created, ctor_pc, ctor_cls, ctor_new, returned>>
vars     == <<pc, call, op, req, nreq, resp, outcome, url_field, session, n_sessions,
              default_headers, instances, n_created, ctor_pc, ctor_cls, ctor_new, returned>>

-----------------------------------------------------------------------------
(* Bounds                                                                  *)

NumThreads == 2

Threads == 1..NumThreads

-----------------------------------------------------------------------------
(* Values                                                                  *)

NONE == "<None>"

\* bool(x) of an Optional[str]
TruthyStr(s) == s # NONE /\ s # ""

NoPayload    == [given |-> FALSE, items |-> {}]
EmptyPayload == [given |-> TRUE,  items |-> {}]
SomePayload  == [given |-> TRUE,  items |-> {<<"id", 1>>}]
Payloads     == {NoPayload, EmptyPayload, SomePayload}

\* bool(x) of an Optional[dict]
TruthyPayload(p) == p.given /\ p.items # {}

Digit(d) ==
    CASE d = 0 -> "0" [] d = 1 -> "1" [] d = 2 -> "2" [] d = 3 -> "3"
      [] d = 4 -> "4" [] d = 5 -> "5" [] d = 6 -> "6" [] d = 7 -> "7"
      [] d = 8 -> "8" [] d = 9 -> "9"

RECURSIVE NatStr(_)
NatStr(n) == IF n < 10 THEN Digit(n) ELSE NatStr(n \div 10) \o Digit(n % 10)

\* str(n) of an int, as an f-string formats it
IntStr(n) == IF n < 0 THEN "-" \o NatStr(-n) ELSE NatStr(n)

\* sub in s
Contains(s, sub) ==
    \E i \in 1..(Len(s) - Len(sub) + 1) : SubSeq(s, i, i + Len(sub) - 1) = sub

\* s.count(sub), overlapping occurrences included
Count(s, sub) ==
    Cardinality({i \in 1..(Len(s) - Len(sub) + 1) : SubSeq(s, i, i + Len(sub) - 1) = sub})

EndsWith(s, suf) ==
    Len(s) >= Len(suf) /\ SubSeq(s, Len(s) - Len(suf) + 1, Len(s)) = suf

-----------------------------------------------------------------------------
(* Objects and their configuration                                         *)

SyncProxy   == "RestateService"
AsyncProxy  == "RestateAsyncService"
SyncClient  == "RestateClient"
AsyncClient == "RestateAsyncClient"
Objects     == {SyncProxy, AsyncProxy, SyncClient, AsyncClient}
Proxies     == {SyncProxy, AsyncProxy}
Classes     == {SyncClient, AsyncClient}

\* self._base_url: the clients are built on the server's URL, a proxy on
\* the URL of one service of it
base_url(o) == IF o \in Proxies THEN "http://r/svc" ELSE "http://r"

-----------------------------------------------------------------------------
(* The transport: what answers an issued request                           *)

Statuses == {200, 400, 404, 500}
JsonType == "application/json"
TextType == "text/plain"
ValidJson == "{\"a\": 1}"
Malformed == "{oops"
Bodies    == {"", ValidJson, Malformed}

Response(st, ct, b) == [exc |-> "", status |-> st, ctype |-> ct, body |-> b]
TransportError(e)   == [exc |-> e, status |-> 0, ctype |-> "", body |-> ""]
NoResp              == [exc |-> "", status |-> 0, ctype |-> "", body |-> ""]

Responses == {Response(st, ct, b) : st \in Statuses, ct \in {JsonType, TextType}, b \in Bodies}

\* Retry(total=3, backoff_factor=1, status_forcelist=[...]) mounted on the
\* requests session: urllib3 retries these statuses for idempotent methods
\* and, once the retries are used up, requests raises RetryError instead of
\* delivering the response.  POST is not retried on status.
StatusForcelist == {429, 500, 502, 503, 504}
RetriedMethods  == {"GET", "DELETE"}

\* What a request through the requests session (_create_session) ends in
SyncTransport(method) ==
    {r \in Responses : ~(r.status \in StatusForcelist /\ method \in RetriedMethods)}
        \cup {TransportError("ConnectionError")}
        \cup (IF method \in RetriedMethods THEN {TransportError("RetryError")} ELSE {})

\* What a request through the aiohttp session (_create_async_session) ends
\* in: any response, a connection failure (ClientConnectionError), or the
\* RuntimeError aiohttp raises for a session that is closed or whose event
\* loop is gone, or the asyncio.TimeoutError of the total timeout
AsyncTransport(method) ==
    Responses \cup {TransportError("ClientConnectionError"), TransportError("RuntimeError"),
                    TransportError("TimeoutError")}

\* The exceptions caught by "except aiohttp.ClientError"
ClientErrors == {"ClientError", "ClientResponseError", "ClientConnectionError"}

Reason(st) ==
    CASE st = 400 -> "Bad Request" [] st = 404 -> "Not Found"
      [] st = 500 -> "Internal Server Error" [] OTHER -> "OK"

\* str(e) of the exception a transport failure raises
ErrorText(r, url) ==
    CASE r.exc = "ConnectionError"       -> "('Connection aborted.', RemoteDisconnected())"
      [] r.exc = "RetryError"            -> "Max retries exceeded with url: " \o url
                                               \o " (Caused by ResponseError('too many 500 error responses'))"
      [] r.exc = "ClientConnectionError" -> "Cannot connect to host r:80 ssl:default [Connect call failed]"
      [] r.exc = "RuntimeError"          -> "Session is closed"
      [] OTHER                           -> ""

\* str(e) of the HTTPError of requests' Response.raise_for_status()
HTTPErrorText(r, url) ==
    IntStr(r.status) \o (IF r.status < 500 THEN " Client Error: " ELSE " Server Error: ")
        \o Reason(r.status) \o " for url: " \o url

\* str(e) of the ClientResponseError of aiohttp's raise_for_status()
ClientResponseErrorText(r, url) ==
    IntStr(r.status) \o ", message='" \o Reason(r.status) \o "', url='" \o url \o "'"

\* raise_for_status() raises for 400 <= status
IsErrorStatus(st) == st >= 400

-----------------------------------------------------------------------------
(* Calls                                                                   *)

NoCall == [entry |-> "", obj |-> "", name |-> "", handler |-> "", key |-> NONE,
           idem |-> NONE, delay |-> 0, payload |-> NoPayload, inv |-> ""]
NoReq  == [method |-> "", url |-> "", idem |-> NONE, body |-> NoPayload, sess |-> 0]

Request(m, u, i, b, s) == [method |-> m, url |-> u, idem |-> i, body |-> b, sess |-> s]

ValNone   == <<"None">>
ValDict   == <<"dict">>
ValJson(b) == <<"json", b>>
ValText(b) == <<"text", b>>

NoOutcome    == [kind |-> "none",   exc |-> "", msg |-> "", val |-> <<>>]
Returned(v)  == [kind |-> "return", exc |-> "", msg |-> "", val |-> v]
Raised(e, m) == [kind |-> "raise",  exc |-> e,  msg |-> m,  val |-> <<>>]

\* The call of caller c ends without a request being awaited
Finish(c, o) ==
    /\ pc' = [pc EXCEPT ![c] = "done"]
    /\ outcome' = [outcome EXCEPT ![c] = o]
    /\ UNCHANGED resp

\* Caller c issues request r and blocks (thread) or suspends (coroutine)
Issue(c, r) ==
    /\ pc' = [pc EXCEPT ![c] = "waiting"]
    /\ req' = [req EXCEPT ![c] = r]
    /\ nreq' = [nreq EXCEPT ![c] = @ + 1]
    /\ UNCHANGED <<outcome, resp>>

\* The idempotency-key header of a request of object o made with no headers
\* argument: what the default headers of the session hold
NoHeader(o) == default_headers[o]

\* A variant of HasAsyncSession whose type test never succeeds
HasAsyncSession_Never(o) == FALSE

\* RestateBase._create_async_session on object o: the live session is
\* reused, else a new one is built
\* ("if type(self._async_session) == aiohttp.ClientSession")
HasAsyncSession(o) == session[o] # 0
CreatedAsyncSession(o) == IF HasAsyncSession(o) THEN session[o] ELSE n_sessions[o] + 1
CreatedCount(o) == IF HasAsyncSession(o) THEN n_sessions[o] ELSE n_sessions[o] + 1

\* self._async_session = self._create_async_session()
RefreshAsyncSession(o) ==
    /\ session' = [session EXCEPT ![o] = CreatedAsyncSession(o)]
    /\ n_sessions' = [n_sessions EXCEPT ![o] = CreatedCount(o)]

-----------------------------------------------------------------------------
(* Decoding a response body                                                *)

IsValidJson(b) == b = ValidJson

\* requests: "if response.text: return response.json() else: return {}";
\* Response.json() raises JSONDecodeError for a body that is not JSON
SyncDecode(r) ==
    IF r.body # ""
    THEN IF IsValidJson(r.body) THEN Returned(ValJson(r.body))
         ELSE Raised("JSONDecodeError", "Expecting property name enclosed in double quotes")
    ELSE Returned(ValDict)

\* 'application/json' in content_type
IsJsonType(ct) == Contains(ct, "application/json")

\* aiohttp: "try: return await response.json()
\*           except (ClientPayloadError, ValueError): return await response.text()";
\* ClientResponse.json() returns None for a blank body
AsyncJson(r) ==
    IF r.body = "" THEN Returned(ValNone)
    ELSE IF IsValidJson(r.body) THEN Returned(ValJson(r.body))
    ELSE Returned(ValText(r.body))

\* the decoding of RestateAsyncService and delete_invocation
AsyncDecodeText(r) ==
    IF IsJsonType(r.ctype) THEN AsyncJson(r) ELSE Returned(ValText(r.body))

\* the decoding of the async attach and output: "return text if text else {}"
AsyncDecodeDict(r) ==
    IF IsJsonType(r.ctype) THEN AsyncJson(r)
    ELSE IF r.body # "" THEN Returned(ValText(r.body)) ELSE Returned(ValDict)

-----------------------------------------------------------------------------
(* Dynamic dispatch on a service proxy                                     *)

Names == {"h1", "h2"}
ProxyKeys == {NONE, "", "k1", "k2"}

\* _get_handler: the URL stored in self._url
DispatchUrl(o, name, key) ==
    IF TruthyStr(key) THEN base_url(o) \o "/" \o key \o "/" \o name
    ELSE base_url(o) \o "/" \o name

\* _request: "if data:" chooses POST, else GET
DispatchMethod(data) == IF TruthyPayload(data) THEN "POST" ELSE "GET"

\* _request: the request built from the _url field as it is when read
DispatchRequest(o, data, sess) ==
    Request(DispatchMethod(data), url_field[o], NoHeader(o),
            IF TruthyPayload(data) THEN data ELSE NoPayload, sess)

DispatchCall(o, name, key, data) ==
    [NoCall EXCEPT !.entry = "dispatch", !.obj = o, !.name = name, !.key = key,
                   !.payload = data]

\* RestateService.__getattr__._get_handler, up to the call of _request:
\* a thread binds its arguments and stores the target in self._url
SyncDispatchSetUrl(c) ==
    /\ pc[c] = "idle"
    /\ \E name \in Names, key \in ProxyKeys, data \in Payloads :
          /\ call' = [call EXCEPT ![c] = DispatchCall(SyncProxy, name, key, data)]
          /\ url_field' = [url_field EXCEPT ![SyncProxy] = DispatchUrl(SyncProxy, name, key)]
    /\ op' = [op EXCEPT ![c] = "sync_dispatch"]
    /\ pc' = [pc EXCEPT ![c] = "request"]
    /\ UNCHANGED <<req, nreq, resp, outcome, session, n_sessions, default_headers, ctorVars>>

\* RestateService._request up to the blocking HTTP call; with no session it
\* returns None and _get_handler fails on response.text
SyncDispatchRequest(c) ==
    /\ pc[c] = "request"
    /\ op[c] = "sync_dispatch"
    /\ IF session[SyncProxy] = 0
       THEN /\ Finish(c, Raised("AttributeError", "'NoneType' object has no attribute 'text'"))
            /\ UNCHANGED <<req, nreq>>
       ELSE Issue(c, DispatchRequest(SyncProxy, call[c].payload, session[SyncProxy]))
    /\ UNCHANGED <<call, op, objVars, ctorVars>>

\* RestateAsyncService.__getattr__._get_handler and _request up to the
\* first suspension of the coroutine, the await of post/get: the URL is
\* stored, the session refreshed and the URL read back without a switch
AsyncDispatch(c) ==
    /\ pc[c] = "idle"
    /\ \E name \in Names, key \in ProxyKeys, data \in Payloads :
          /\ call' = [call EXCEPT ![c] = DispatchCall(AsyncProxy, name, key, data)]
          /\ url_field' = [url_field EXCEPT ![AsyncProxy] = DispatchUrl(AsyncProxy, name, key)]
          /\ pc' = [pc EXCEPT ![c] = "waiting"]
          /\ req' = [req EXCEPT ![c] =
                Request(DispatchMethod(data), url_field'[AsyncProxy], NoHeader(AsyncProxy),
                        IF TruthyPayload(data) THEN data ELSE NoPayload,
                        CreatedAsyncSession(AsyncProxy))]
    /\ nreq' = [nreq EXCEPT ![c] = @ + 1]
    /\ RefreshAsyncSession(AsyncProxy)
    /\ op' = [op EXCEPT ![c] = "async_dispatch"]
    /\ UNCHANGED <<resp, outcome, default_headers, ctorVars>>

\* RestateService: the rest of _request and of _get_handler
SyncDispatchComplete(rq, r) ==
    IF r.exc # "" THEN Raised(r.exc, ErrorText(r, rq.url))
    ELSE IF r.status # 200
         THEN Raised("RequestException", "Request failed: " \o IntStr(r.status))
         ELSE SyncDecode(r)

\* RestateAsyncService: the rest of _request and of _get_handler
AsyncDispatchComplete(rq, r) ==
    IF r.exc # "" THEN Raised(r.exc, ErrorText(r, rq.url))
    ELSE IF r.status # 200
         THEN Raised("ClientError", "Request failed: " \o IntStr(r.status))
         ELSE AsyncDecodeText(r)

-----------------------------------------------------------------------------
(* Invocation control: argument domains and URLs                           *)

Services == {"", "s1"}
Handlers == {"", "h1"}
Keys     == {"", "k1"}
OptKeys  == {NONE, "", "k1"}
Idems    == {NONE, "", "i1"}
Delays   == {-1, 0, 1, 10}
InvIds   == {"inv1", "inv2"}
\* the required arguments of attach and output, None included
ReqArgs(S) == S \cup {NONE}

\* service_send: url = f"{self._base_url}/{service_name}/{handler}/send"
ServiceSendUrl(o, service, handler) ==
    base_url(o) \o "/" \o service \o "/" \o handler \o "/send"

\* A variant of ObjectSendUrl with the key and the handler exchanged
ObjectSendUrl_Swapped(o, service, key, handler) ==
    base_url(o) \o "/" \o service \o "/" \o handler \o "/" \o key \o "/send"

\* object_send: url = f"{self._base_url}/{service_name}/{key}/{handler}/send"
ObjectSendUrl(o, service, key, handler) ==
    base_url(o) \o "/" \o service \o "/" \o key \o "/" \o handler \o "/send"

\* A variant of WithDelay that tests delay_seconds >= 0
WithDelay_NonNegative(url, delay) ==
    IF delay >= 0 THEN url \o "?delay=" \o IntStr(delay) \o "s" ELSE url

\* "if delay_seconds > 0: url = f"{url}?delay={delay_seconds}s""
WithDelay(url, delay) ==
    IF delay > 0 THEN url \o "?delay=" \o IntStr(delay) \o "s" ELSE url

\* "if idempotency_key: headers["idempotency-key"] = idempotency_key"
IdemHeader(idem) == IF TruthyStr(idem) THEN idem ELSE NONE

\* session.post(url, ..., headers=headers): the session merges its default
\* headers with the headers of the request, which win
MergedHeader(kept, header) == IF header # NONE THEN header ELSE kept

\* A variant of HeadersKept that stores the key in the session's headers
HeadersKept_Stored(kept, idem) == IF TruthyStr(idem) THEN idem ELSE kept

\* "headers = {"Content-Type": "application/json"}" is a dict local to the
\* call: the default headers of the session stay as they are
HeadersKept(kept, idem) == kept

ServiceAttachUrl(o, service, handler, idem) ==
    base_url(o) \o "/restate/invocation/" \o service \o "/" \o handler \o "/" \o idem
        \o "/attach"

ObjectAttachUrl(o, service, key, handler, idem) ==
    base_url(o) \o "/restate/invocation/" \o service \o "/" \o key \o "/" \o handler
        \o "/" \o idem \o "/attach"

ServiceOutputUrl(o, service, handler, idem) ==
    base_url(o) \o "/restate/invocation/" \o service \o "/" \o handler \o "/" \o idem
        \o "/output"

ObjectOutputUrl(o, service, key, handler, idem) ==
    base_url(o) \o "/restate/invocation/" \o service \o "/" \o key \o "/" \o handler
        \o "/" \o idem \o "/output"

DeleteUrl(o, inv) == base_url(o) \o "/invocation/" \o inv

\* The checks of service_attach and service_output, in the order of the
\* code: the first argument that is falsy decides the ValueError
ServiceValidation(service, handler, idem) ==
    IF ~TruthyStr(service) THEN "Service name is required"
    ELSE IF ~TruthyStr(handler) THEN "Handler is required"
    ELSE IF ~TruthyStr(idem) THEN "Idempotency key is required"
    ELSE ""

\* The checks of object_attach and object_output
ObjectValidation(service, handler, key, idem) ==
    IF ~TruthyStr(service) THEN "Service name is required"
    ELSE IF ~TruthyStr(handler) THEN "Handler is required"
    ELSE IF ~TruthyStr(key) THEN "Key is required"
    ELSE IF ~TruthyStr(idem) THEN "Idempotency key is required"
    ELSE ""

\* "if not self._session: return"
SessionAbsent(o) == session[o] = 0

-----------------------------------------------------------------------------
(* RestateClient: each method up to its blocking HTTP call                 *)

\* A GET of the sync client once the session check and the validation passed
SyncGet(c, invalid, url) ==
    IF SessionAbsent(SyncClient)
    THEN Finish(c, Returned(ValNone)) /\ UNCHANGED <<req, nreq>>
    ELSE IF invalid # ""
         THEN Finish(c, Raised("ValueError", invalid)) /\ UNCHANGED <<req, nreq>>
         ELSE Issue(c, Request("GET", url, NoHeader(SyncClient), NoPayload, session[SyncClient]))

RestateClient_service_send(c, service, handler, payload, delay, idem) ==
    /\ op' = [op EXCEPT ![c] = "service_send"]
    /\ IF SessionAbsent(SyncClient)
       THEN Finish(c, Returned(ValNone)) /\ UNCHANGED <<req, nreq, default_headers>>
       ELSE /\ Issue(c, Request("POST", WithDelay(ServiceSendUrl(SyncClient, service, handler), delay),
                                MergedHeader(default_headers[SyncClient], IdemHeader(idem)),
                                payload, session[SyncClient]))
            /\ default_headers' = [default_headers EXCEPT ![SyncClient] = HeadersKept(@, idem)]
    /\ UNCHANGED <<session, n_sessions>>

RestateClient_object_send(c, service, handler, key, payload, delay, idem) ==
    /\ op' = [op EXCEPT ![c] = "object_send"]
    /\ IF SessionAbsent(SyncClient)
       THEN Finish(c, Returned(ValNone)) /\ UNCHANGED <<req, nreq, default_headers>>
       ELSE /\ Issue(c, Request("POST", WithDelay(ObjectSendUrl(SyncClient, service, key, handler), delay),
                                MergedHeader(default_headers[SyncClient], IdemHeader(idem)),
                                payload, session[SyncClient]))
            /\ default_headers' = [default_headers EXCEPT ![SyncClient] = HeadersKept(@, idem)]
    /\ UNCHANGED <<session, n_sessions>>

RestateClient_generic_send(c, service, handler, payload, key, delay, idem) ==
    IF TruthyStr(key)
    THEN RestateClient_object_send(c, service, handler, key, payload, delay, idem)
    ELSE RestateClient_service_send(c, service, handler, payload, delay, idem)

RestateClient_service_attach(c, service, handler, idem) ==
    /\ op' = [op EXCEPT ![c] = "service_attach"]
    /\ SyncGet(c, ServiceValidation(service, handler, idem),
               ServiceAttachUrl(SyncClient, service, handler, idem))
    /\ UNCHANGED <<session, n_sessions, default_headers>>

RestateClient_object_attach(c, service, handler, key, idem) ==
    /\ op' = [op EXCEPT ![c] = "object_attach"]
    /\ SyncGet(c, ObjectValidation(service, handler, key, idem),
               ObjectAttachUrl(SyncClient, service, key, handler, idem))
    /\ UNCHANGED <<session, n_sessions, default_headers>>

RestateClient_generic_attach(c, service, handler, idem, key) ==
    IF TruthyStr(key)
    THEN RestateClient_object_attach(c, service, handler, key, idem)
    ELSE RestateClient_service_attach(c, service, handler, idem)

RestateClient_service_output(c, service, handler, idem) ==
    /\ op' = [op EXCEPT ![c] = "service_output"]
    /\ SyncGet(c, ServiceValidation(service, handler, idem),
               ServiceOutputUrl(SyncClient, service, handler, idem))
    /\ UNCHANGED <<session, n_sessions, default_headers>>

RestateClient_object_output(c, service, handler, key, idem) ==
    /\ op' = [op EXCEPT ![c] = "object_output"]
    /\ SyncGet(c, ObjectValidation(service, handler, key, idem),
               ObjectOutputUrl(SyncClient, service, key, handler, idem))
    /\ UNCHANGED <<session, n_sessions, default_headers>>

RestateClient_generic_output(c, service, handler, idem, key) ==
    IF TruthyStr(key)
    THEN RestateClient_object_output(c, service, handler, key, idem)
    ELSE RestateClient_service_output(c, service, handler, idem)

\* delete_invocation has no session check: self._session.delete on None
\* raises AttributeError, which neither except clause catches
RestateClient_delete_invocation(c, inv) ==
    /\ op' = [op EXCEPT ![c] = "delete_invocation"]
    /\ IF session[SyncClient] = 0
       THEN /\ Finish(c, Raised("AttributeError", "'NoneType' object has no attribute 'delete'"))
            /\ UNCHANGED <<req, nreq>>
       ELSE Issue(c, Request("DELETE", DeleteUrl(SyncClient, inv), NoHeader(SyncClient),
                             NoPayload, session[SyncClient]))
    /\ UNCHANGED <<session, n_sessions, default_headers>>

-----------------------------------------------------------------------------
(* RestateAsyncClient: each coroutine up to its first suspension           *)

\* A variant of AsyncGet that sends the request without validating
AsyncGet_NoValidation(c, invalid, url) ==
    /\ RefreshAsyncSession(AsyncClient)
    /\ Issue(c, Request("GET", url, NoHeader(AsyncClient), NoPayload,
                        CreatedAsyncSession(AsyncClient)))
    /\ UNCHANGED default_headers

\* A GET of the async client: the session is refreshed first, then the
\* arguments are validated, then the request is awaited
AsyncGet(c, invalid, url) ==
    /\ RefreshAsyncSession(AsyncClient)
    /\ IF invalid # ""
       THEN Finish(c, Raised("ValueError", invalid)) /\ UNCHANGED <<req, nreq>>
       ELSE Issue(c, Request("GET", url, NoHeader(AsyncClient), NoPayload,
                             CreatedAsyncSession(AsyncClient)))
    /\ UNCHANGED default_headers

RestateAsyncClient_service_send(c, service, handler, payload, delay, idem) ==
    /\ op' = [op EXCEPT ![c] = "service_send"]
    /\ RefreshAsyncSession(AsyncClient)
    /\ Issue(c, Request("POST", WithDelay(ServiceSendUrl(AsyncClient, service, handler), delay),
                        MergedHeader(default_headers[AsyncClient], IdemHeader(idem)),
                        payload, CreatedAsyncSession(AsyncClient)))
    /\ default_headers' = [default_headers EXCEPT ![AsyncClient] = HeadersKept(@, idem)]

RestateAsyncClient_object_send(c, service, handler, key, payload, delay, idem) ==
    /\ op' = [op EXCEPT ![c] = "object_send"]
    /\ RefreshAsyncSession(AsyncClient)
    /\ Issue(c, Request("POST", WithDelay(ObjectSendUrl(AsyncClient, service, key, handler), delay),
                        MergedHeader(default_headers[AsyncClient], IdemHeader(idem)),
                        payload, CreatedAsyncSession(AsyncClient)))
    /\ default_headers' = [default_headers EXCEPT ![AsyncClient] = HeadersKept(@, idem)]

RestateAsyncClient_generic_send(c, service, handler, payload, key, delay, idem) ==
    IF TruthyStr(key)
    THEN RestateAsyncClient_object_send(c, service, handler, key, payload, delay, idem)
    ELSE RestateAsyncClient_service_send(c, service, handler, payload, delay, idem)

RestateAsyncClient_service_attach(c, service, handler, idem) ==
    /\ op' = [op EXCEPT ![c] = "service_attach"]
    /\ AsyncGet(c, ServiceValidation(service, handler, idem),
                ServiceAttachUrl(AsyncClient, service, handler, idem))

RestateAsyncClient_object_attach(c, service, handler, key, idem) ==
    /\ op' = [op EXCEPT ![c] = "object_attach"]
    /\ AsyncGet(c, ObjectValidation(service, handler, key, idem),
                ObjectAttachUrl(AsyncClient, service, key, handler, idem))

RestateAsyncClient_generic_attach(c, service, handler, idem, key) ==
    IF TruthyStr(key)
    THEN RestateAsyncClient_object_attach(c, service, handler, key, idem)
    ELSE RestateAsyncClient_service_attach(c, service, handler, idem)

RestateAsyncClient_service_output(c, service, handler, idem) ==
    /\ op' = [op EXCEPT ![c] = "service_output"]
    /\ AsyncGet(c, ServiceValidation(service, handler, idem),
                ServiceOutputUrl(AsyncClient, service, handler, idem))

RestateAsyncClient_object_output(c, service, handler, key, idem) ==
    /\ op' = [op EXCEPT ![c] = "object_output"]
    /\ AsyncGet(c, ObjectValidation(service, handler, key, idem),
                ObjectOutputUrl(AsyncClient, service, key, handler, idem))

\* A variant of RestateAsyncClient_generic_output that ignores the key
RestateAsyncClient_generic_output_NoKey(c, service, handler, idem, key) ==
    RestateAsyncClient_service_output(c, service, handler, idem)

RestateAsyncClient_generic_output(c, service, handler, idem, key) ==
    IF TruthyStr(key)
    THEN RestateAsyncClient_object_output(c, service, handler, key, idem)
    ELSE RestateAsyncClient_service_output(c, service, handler, idem)

RestateAsyncClient_delete_invocation(c, inv) ==
    /\ op' = [op EXCEPT ![c] = "delete_invocation"]
    /\ RefreshAsyncSession(AsyncClient)
    /\ Issue(c, Request("DELETE", DeleteUrl(AsyncClient, inv), NoHeader(AsyncClient),
                        NoPayload, CreatedAsyncSession(AsyncClient)))
    /\ UNCHANGED default_headers

-----------------------------------------------------------------------------
(* RestateClient: each method from the answer of the transport on          *)

\* "except requests.RequestException as e: raise TerminalError(str(e)) from e"
\* around post and raise_for_status; nothing is returned on success
SyncSendComplete(rq, r) ==
    IF r.exc # "" THEN Raised("TerminalError", ErrorText(r, rq.url))
    ELSE IF IsErrorStatus(r.status) THEN Raised("TerminalError", HTTPErrorText(r, rq.url))
    ELSE Returned(ValNone)

\* "except requests.RequestException as e: ... raise" around get,
\* raise_for_status and the decoding: the exception is re-raised as it is
SyncAttachComplete(rq, r) ==
    IF r.exc # "" THEN Raised(r.exc, ErrorText(r, rq.url))
    ELSE IF IsErrorStatus(r.status) THEN Raised("HTTPError", HTTPErrorText(r, rq.url))
    ELSE SyncDecode(r)

\* as attach, without raise_for_status
SyncOutputComplete(rq, r) ==
    IF r.exc # "" THEN Raised(r.exc, ErrorText(r, rq.url))
    ELSE SyncDecode(r)

\* "except HTTPError as e: if e.response.status_code == 404: return None;
\* raise" and "except RequestException: raise"
SyncDeleteComplete(rq, r) ==
    IF r.exc # "" THEN Raised(r.exc, ErrorText(r, rq.url))
    ELSE IF IsErrorStatus(r.status)
         THEN IF r.status = 404 THEN Returned(ValNone)
              ELSE Raised("HTTPError", HTTPErrorText(r, rq.url))
         ELSE SyncDecode(r)

-----------------------------------------------------------------------------
(* RestateAsyncClient: each coroutine from the answer of the transport on  *)

\* The three except clauses of the async methods, for an exception raised
\* by the awaited request: ClientError and any other Exception become
\* TerminalError(str(e)), RuntimeError the fixed message
AsyncTransportFailure(rq, r) ==
    IF r.exc = "RuntimeError" THEN Raised("TerminalError", "Failed to create async session")
    ELSE Raised("TerminalError", ErrorText(r, rq.url))

AsyncSendComplete(rq, r) ==
    IF r.exc # "" THEN AsyncTransportFailure(rq, r)
    ELSE IF IsErrorStatus(r.status)
         THEN Raised("TerminalError", ClientResponseErrorText(r, rq.url))
         ELSE Returned(ValNone)

AsyncAttachComplete(rq, r) ==
    IF r.exc # "" THEN AsyncTransportFailure(rq, r)
    ELSE IF IsErrorStatus(r.status)
         THEN Raised("TerminalError", ClientResponseErrorText(r, rq.url))
         ELSE AsyncDecodeDict(r)

\* A variant of AsyncOutputComplete that checks the status as attach does
AsyncOutputComplete_Checked(rq, r) ==
    IF r.exc # "" THEN AsyncTransportFailure(rq, r)
    ELSE IF IsErrorStatus(r.status)
         THEN Raised("TerminalError", ClientResponseErrorText(r, rq.url))
         ELSE AsyncDecodeDict(r)

\* service_output and object_output call no raise_for_status
AsyncOutputComplete(rq, r) ==
    IF r.exc # "" THEN AsyncTransportFailure(rq, r)
    ELSE AsyncDecodeDict(r)

\* A variant of AsyncDeleteComplete without the special case of 404
AsyncDeleteComplete_No404(rq, r) ==
    IF r.exc \in ClientErrors
    THEN Raised("AttributeError", "'ClientConnectorError' object has no attribute 'status'")
    ELSE IF r.exc # "" THEN AsyncTransportFailure(rq, r)
    ELSE IF IsErrorStatus(r.status)
         THEN Raised("TerminalError", ClientResponseErrorText(r, rq.url))
         ELSE AsyncDecodeText(r)

\* "except aiohttp.ClientError as e: if e.status == 404: return None": only
\* ClientResponseError has a status, so for a connection error the handler
\* itself fails with AttributeError
AsyncDeleteComplete(rq, r) ==
    IF r.exc \in ClientErrors
    THEN Raised("AttributeError", "'ClientConnectorError' object has no attribute 'status'")
    ELSE IF r.exc # "" THEN AsyncTransportFailure(rq, r)
    ELSE IF IsErrorStatus(r.status)
         THEN IF r.status = 404 THEN Returned(ValNone)
              ELSE Raised("TerminalError", ClientResponseErrorText(r, rq.url))
         ELSE AsyncDecodeText(r)

-----------------------------------------------------------------------------
(* The answer of the transport and the end of a call                       *)

IsSync(o) == o \in {SyncProxy, SyncClient}

Transport(o, method) == IF IsSync(o) THEN SyncTransport(method) ELSE AsyncTransport(method)

\* What the call returns or raises once its request is answered by r
Complete(o, m, rq, r) ==
    CASE m = "sync_dispatch"  -> SyncDispatchComplete(rq, r)
      [] m = "async_dispatch" -> AsyncDispatchComplete(rq, r)
      [] m \in {"service_send", "object_send"} ->
            IF IsSync(o) THEN SyncSendComplete(rq, r) ELSE AsyncSendComplete(rq, r)
      [] m \in {"service_attach", "object_attach"} ->
            IF IsSync(o) THEN SyncAttachComplete(rq, r) ELSE AsyncAttachComplete(rq, r)
      [] m \in {"service_output", "object_output"} ->
            IF IsSync(o) THEN SyncOutputComplete(rq, r) ELSE AsyncOutputComplete(rq, r)
      [] m = "delete_invocation" ->
            IF IsSync(o) THEN SyncDeleteComplete(rq, r) ELSE AsyncDeleteComplete(rq, r)

\* The transport answers the request caller c waits for; the method runs to
\* its end
Respond(c) ==
    /\ pc[c] = "waiting"
    /\ \E r \in Transport(call[c].obj, req[c].method) :
          /\ resp' = [resp EXCEPT ![c] = r]
          /\ outcome' = [outcome EXCEPT ![c] = Complete(call[c].obj, op[c], req[c], r)]
    /\ pc' = [pc EXCEPT ![c] = "done"]
    /\ UNCHANGED <<call, op, req, nreq, objVars, ctorVars>>

\* The caller takes the result; it may call again
Return(c) ==
    /\ pc[c] = "done"
    /\ pc' = [pc EXCEPT ![c] = "idle"]
    /\ call' = [call EXCEPT ![c] = NoCall]
    /\ op' = [op EXCEPT ![c] = ""]
    /\ req' = [req EXCEPT ![c] = NoReq]
    /\ nreq' = [nreq EXCEPT ![c] = 0]
    /\ resp' = [resp EXCEPT ![c] = NoResp]
    /\ outcome' = [outcome EXCEPT ![c] = NoOutcome]
    /\ UNCHANGED <<objVars, ctorVars>>

-----------------------------------------------------------------------------
(* The calls of the client methods                                         *)

ClientCall(o, entry, service, handler, key, idem, delay, payload, inv) ==
    [entry |-> entry, obj |-> o, name |-> service, handler |-> handler, key |-> key,
     idem |-> idem, delay |-> delay, payload |-> payload, inv |-> inv]

Enter(c, cl) ==
    /\ call' = [call EXCEPT ![c] = cl]
    /\ UNCHANGED <<url_field, ctorVars>>

SyncServiceSend(c) ==
    /\ pc[c] = "idle"
    /\ \E s \in Services, h \in Handlers, p \in Payloads, d \in Delays, i \in Idems :
          /\ Enter(c, ClientCall(SyncClient, "service_send", s, h, NONE, i, d, p, ""))
          /\ RestateClient_service_send(c, s, h, p, d, i)

SyncObjectSend(c) ==
    /\ pc[c] = "idle"
    /\ \E s \in Services, h \in Handlers, k \in Keys, p \in Payloads, d \in Delays, i \in Idems :
          /\ Enter(c, ClientCall(SyncClient, "object_send", s, h, k, i, d, p, ""))
          /\ RestateClient_object_send(c, s, h, k, p, d, i)

SyncGenericSend(c) ==
    /\ pc[c] = "idle"
    /\ \E s \in Services, h \in Handlers, k \in OptKeys, p \in Payloads, d \in Delays, i \in Idems :
          /\ Enter(c, ClientCall(SyncClient, "generic_send", s, h, k, i, d, p, ""))
          /\ RestateClient_generic_send(c, s, h, p, k, d, i)

SyncServiceAttach(c) ==
    /\ pc[c] = "idle"
    /\ \E s \in ReqArgs(Services), h \in ReqArgs(Handlers), i \in Idems :
          /\ Enter(c, ClientCall(SyncClient, "service_attach", s, h, NONE, i, 0, NoPayload, ""))
          /\ RestateClient_service_attach(c, s, h, i)

SyncObjectAttach(c) ==
    /\ pc[c] = "idle"
    /\ \E s \in ReqArgs(Services), h \in ReqArgs(Handlers), k \in OptKeys, i \in Idems :
          /\ Enter(c, ClientCall(SyncClient, "object_attach", s, h, k, i, 0, NoPayload, ""))
          /\ RestateClient_object_attach(c, s, h, k, i)

SyncGenericAttach(c) ==
    /\ pc[c] = "idle"
    /\ \E s \in ReqArgs(Services), h \in ReqArgs(Handlers), k \in OptKeys, i \in Idems :
          /\ Enter(c, ClientCall(SyncClient, "generic_attach", s, h, k, i, 0, NoPayload, ""))
          /\ RestateClient_generic_attach(c, s, h, i, k)

SyncServiceOutput(c) ==
    /\ pc[c] = "idle"
    /\ \E s \in ReqArgs(Services), h \in ReqArgs(Handlers), i \in Idems :
          /\ Enter(c, ClientCall(SyncClient, "service_output", s, h, NONE, i, 0, NoPayload, ""))
          /\ RestateClient_service_output(c, s, h, i)

SyncObjectOutput(c) ==
    /\ pc[c] = "idle"
    /\ \E s \in ReqArgs(Services), h \in ReqArgs(Handlers), k \in OptKeys, i \in Idems :
          /\ Enter(c, ClientCall(SyncClient, "object_output", s, h, k, i, 0, NoPayload, ""))
          /\ RestateClient_object_output(c, s, h, k, i)

SyncGenericOutput(c) ==
    /\ pc[c] = "idle"
    /\ \E s \in ReqArgs(Services), h \in ReqArgs(Handlers), k \in OptKeys, i \in Idems :
          /\ Enter(c, ClientCall(SyncClient, "generic_output", s, h, k, i, 0, NoPayload, ""))
          /\ RestateClient_generic_output(c, s, h, i, k)

SyncDeleteInvocation(c) ==
    /\ pc[c] = "idle"
    /\ \E v \in InvIds :
          /\ Enter(c, ClientCall(SyncClient, "delete_invocation", "", "", NONE, NONE, 0, NoPayload, v))
          /\ RestateClient_delete_invocation(c, v)

AsyncServiceSend(c) ==
    /\ pc[c] = "idle"
    /\ \E s \in Services, h \in Handlers, p \in Payloads, d \in Delays, i \in Idems :
          /\ Enter(c, ClientCall(AsyncClient, "service_send", s, h, NONE, i, d, p, ""))
          /\ RestateAsyncClient_service_send(c, s, h, p, d, i)

AsyncObjectSend(c) ==
    /\ pc[c] = "idle"
    /\ \E s \in Services, h \in Handlers, k \in Keys, p \in Payloads, d \in Delays, i \in Idems :
          /\ Enter(c, ClientCall(AsyncClient, "object_send", s, h, k, i, d, p, ""))
          /\ RestateAsyncClient_object_send(c, s, h, k, p, d, i)

AsyncGenericSend(c) ==
    /\ pc[c] = "idle"
    /\ \E s \in Services, h \in Handlers, k \in OptKeys, p \in Payloads, d \in Delays, i \in Idems :
          /\ Enter(c, ClientCall(AsyncClient, "generic_send", s, h, k, i, d, p, ""))
          /\ RestateAsyncClient_generic_send(c, s, h, p, k, d, i)

AsyncServiceAttach(c) ==
    /\ pc[c] = "idle"
    /\ \E s \in ReqArgs(Services), h \in ReqArgs(Handlers), i \in Idems :
          /\ Enter(c, ClientCall(AsyncClient, "service_attach", s, h, NONE, i, 0, NoPayload, ""))
          /\ RestateAsyncClient_service_attach(c, s, h, i)

AsyncObjectAttach(c) ==
    /\ pc[c] = "idle"
    /\ \E s \in ReqArgs(Services), h \in ReqArgs(Handlers), k \in OptKeys, i \in Idems :
          /\ Enter(c, ClientCall(AsyncClient, "object_attach", s, h, k, i, 0, NoPayload, ""))
          /\ RestateAsyncClient_object_attach(c, s, h, k, i)

AsyncGenericAttach(c) ==
    /\ pc[c] = "idle"
    /\ \E s \in ReqArgs(Services), h \in ReqArgs(Handlers), k \in OptKeys, i \in Idems :
          /\ Enter(c, ClientCall(AsyncClient, "generic_attach", s, h, k, i, 0, NoPayload, ""))
          /\ RestateAsyncClient_generic_attach(c, s, h, i, k)

AsyncServiceOutput(c) ==
    /\ pc[c] = "idle"
    /\ \E s \in ReqArgs(Services), h \in ReqArgs(Handlers), i \in Idems :
          /\ Enter(c, ClientCall(AsyncClient, "service_output", s, h, NONE, i, 0, NoPayload, ""))
          /\ RestateAsyncClient_service_output(c, s, h, i)

AsyncObjectOutput(c) ==
    /\ pc[c] = "idle"
    /\ \E s \in ReqArgs(Services), h \in ReqArgs(Handlers), k \in OptKeys, i \in Idems :
          /\ Enter(c, ClientCall(AsyncClient, "object_output", s, h, k, i, 0, NoPayload, ""))
          /\ RestateAsyncClient_object_output(c, s, h, k, i)

AsyncGenericOutput(c) ==
    /\ pc[c] = "idle"
    /\ \E s \in ReqArgs(Services), h \in ReqArgs(Handlers), k \in OptKeys, i \in Idems :
          /\ Enter(c, ClientCall(AsyncClient, "generic_output", s, h, k, i, 0, NoPayload, ""))
          /\ RestateAsyncClient_generic_output(c, s, h, i, k)

AsyncDeleteInvocation(c) ==
    /\ pc[c] = "idle"
    /\ \E v \in InvIds :
          /\ Enter(c, ClientCall(AsyncClient, "delete_invocation", "", "", NONE, NONE, 0, NoPayload, v))
          /\ RestateAsyncClient_delete_invocation(c, v)

-----------------------------------------------------------------------------
(* Attribute access on the singleton clients, run by several threads       *)

AttrNames == {"s1", "s2"}

\* The service proxy an attribute access returns, built on a base URL
ValProxy(u) == <<"proxy", u>>

\* __getattr__: "self._url = f"{self._base_url}/{name}"": the thread stores
\* the URL of the service in the _url field of the client
GetattrSetUrl(c) ==
    /\ pc[c] = "idle"
    /\ \E o \in Classes, name \in AttrNames :
          /\ call' = [call EXCEPT ![c] = [NoCall EXCEPT !.entry = "getattr", !.obj = o,
                                                        !.name = name]]
          /\ url_field' = [url_field EXCEPT ![o] = base_url(o) \o "/" \o name]
    /\ op' = [op EXCEPT ![c] = "getattr"]
    /\ pc' = [pc EXCEPT ![c] = "construct"]
    /\ UNCHANGED <<req, nreq, resp, outcome, session, n_sessions, default_headers, ctorVars>>

\* __getattr__: "return RestateService(base_url=self._url, ...)": the thread
\* reads the field back and builds the proxy on what it holds by then
GetattrConstruct(c) ==
    /\ pc[c] = "construct"
    /\ op[c] = "getattr"
    /\ Finish(c, Returned(ValProxy(url_field[call[c].obj])))
    /\ UNCHANGED <<call, op, req, nreq, objVars, ctorVars>>

-----------------------------------------------------------------------------
(* Singleton.__call__, run by several threads                              *)

\* "if cls not in cls._instances": the thread reads the registry
CtorCheck(t) ==
    /\ ctor_pc[t] = "idle"
    /\ \E cls \in Classes :
          /\ ctor_cls' = [ctor_cls EXCEPT ![t] = cls]
          /\ ctor_pc' = [ctor_pc EXCEPT ![t] = IF instances[cls] = 0 THEN "construct" ELSE "return"]
    /\ UNCHANGED <<instances, n_created, ctor_new, returned, callVars, objVars>>

\* "super(Singleton, cls).__call__(*args, **kwargs)": a new instance is built
CtorConstruct(t) ==
    /\ ctor_pc[t] = "construct"
    /\ n_created' = [n_created EXCEPT ![ctor_cls[t]] = @ + 1]
    /\ ctor_new' = [ctor_new EXCEPT ![t] = n_created'[ctor_cls[t]]]
    /\ ctor_pc' = [ctor_pc EXCEPT ![t] = "store"]
    /\ UNCHANGED <<instances, ctor_cls, returned, callVars, objVars>>

\* "cls._instances[cls] = ..."
CtorStore(t) ==
    /\ ctor_pc[t] = "store"
    /\ instances' = [instances EXCEPT ![ctor_cls[t]] = ctor_new[t]]
    /\ ctor_pc' = [ctor_pc EXCEPT ![t] = "return"]
    /\ UNCHANGED <<n_created, ctor_cls, ctor_new, returned, callVars, objVars>>

\* "return cls._instances[cls]"
CtorReturn(t) ==
    /\ ctor_pc[t] = "return"
    /\ returned' = [returned EXCEPT ![ctor_cls[t]] = @ \cup {instances[ctor_cls[t]]}]
    /\ ctor_pc' = [ctor_pc EXCEPT ![t] = "idle"]
    /\ ctor_new' = [ctor_new EXCEPT ![t] = 0]
    /\ UNCHANGED <<instances, n_created, ctor_cls, callVars, objVars>>

-----------------------------------------------------------------------------
(* Specifications                                                          *)

\* RestateBase.__init__: under the pytest marker no session is built; else
\* the requests session is built and the aiohttp session is built if an
\* event loop is running.  RestateAsyncService.__init__ builds its aiohttp
\* session in any case.
InitSession(pytest, loop) ==
    [o \in Objects |->
        CASE o = AsyncProxy  -> 1
          [] o = AsyncClient -> IF pytest \/ ~loop THEN 0 ELSE 1
          [] OTHER           -> IF pytest THEN 0 ELSE 1]

Init ==
    /\ pc = [c \in Threads |-> "idle"]
    /\ call = [c \in Threads |-> NoCall]
    /\ op = [c \in Threads |-> ""]
    /\ req = [c \in Threads |-> NoReq]
    /\ nreq = [c \in Threads |-> 0]
    /\ resp = [c \in Threads |-> NoResp]
    /\ outcome = [c \in Threads |-> NoOutcome]
    /\ url_field = [o \in Objects |-> ""]
    /\ \E pytest \in BOOLEAN, loop \in BOOLEAN : session = InitSession(pytest, loop)
    /\ n_sessions = session
    /\ default_headers = [o \in Objects |-> NONE]
    /\ instances = [cls \in Classes |-> 0]
    /\ n_created = [cls \in Classes |-> 0]
    /\ ctor_pc = [t \in Threads |-> "idle"]
    /\ ctor_cls = [t \in Threads |-> SyncClient]
    /\ ctor_new = [t \in Threads |-> 0]
    /\ returned = [cls \in Classes |-> {}]

\* The operations of the clients, called one at a time
Caller == CHOOSE c \in Threads : \A d \in Threads : c <= d

Next ==
    \/ SyncServiceSend(Caller)   \/ SyncObjectSend(Caller)   \/ SyncGenericSend(Caller)
    \/ SyncServiceAttach(Caller) \/ SyncObjectAttach(Caller) \/ SyncGenericAttach(Caller)
    \/ SyncServiceOutput(Caller) \/ SyncObjectOutput(Caller) \/ SyncGenericOutput(Caller)
    \/ SyncDeleteInvocation(Caller)
    \/ AsyncServiceSend(Caller)   \/ AsyncObjectSend(Caller)   \/ AsyncGenericSend(Caller)
    \/ AsyncServiceAttach(Caller) \/ AsyncObjectAttach(Caller) \/ AsyncGenericAttach(Caller)
    \/ AsyncServiceOutput(Caller) \/ AsyncObjectOutput(Caller) \/ AsyncGenericOutput(Caller)
    \/ AsyncDeleteInvocation(Caller)
    \/ Respond(Caller)
    \/ Return(Caller)

Spec == Init /\ [][Next]_vars

\* Dynamic dispatch on the two proxies, called one at a time
NextDispatch ==
    \/ SyncDispatchSetUrl(Caller)
    \/ SyncDispatchRequest(Caller)
    \/ AsyncDispatch(Caller)
    \/ Respond(Caller)
    \/ Return(Caller)

SpecDispatch == Init /\ [][NextDispatch]_vars

\* The concurrent calls are made with a key that is absent or not empty and
\* a payload that is absent or not empty
ConcurrentArgs(c) == call'[c].key # "" /\ call'[c].payload # EmptyPayload

\* and are answered by a JSON body, an error status or a transport failure
ConcurrentAnswer(c) ==
    \/ resp'[c].exc # ""
    \/ resp'[c].ctype = JsonType /\ resp'[c].body = ValidJson /\ resp'[c].status \in {200, 400}

\* Threads sharing one RestateService proxy: a thread may be preempted
\* between any two steps
NextProxy ==
    \E c \in Threads :
        \/ SyncDispatchSetUrl(c) /\ ConcurrentArgs(c)
        \/ SyncDispatchRequest(c)
        \/ Respond(c) /\ ConcurrentAnswer(c)
        \/ Return(c)

SpecProxy == Init /\ [][NextProxy]_vars

\* Coroutines sharing one RestateAsyncService proxy on one event loop: a
\* coroutine runs until it awaits the network
NextAsyncProxy ==
    \E c \in Threads :
        \/ AsyncDispatch(c) /\ ConcurrentArgs(c)
        \/ Respond(c) /\ ConcurrentAnswer(c)
        \/ Return(c)

SpecAsyncProxy == Init /\ [][NextAsyncProxy]_vars

\* The concurrent calls of the client methods name one service, handler,
\* invocation and idempotency key, with a key that is absent or not empty
ConcurrentCall(c) ==
    /\ call'[c].name \in {"s1", ""} /\ call'[c].handler \in {"h1", ""}
    /\ call'[c].name = "" <=> call'[c].entry = "delete_invocation"
    /\ call'[c].handler = "" <=> call'[c].entry = "delete_invocation"
    /\ call'[c].entry = "delete_invocation" => call'[c].inv = "inv1"
    /\ call'[c].entry # "delete_invocation" => call'[c].idem = "i1"
    /\ call'[c].entry \in {"service_send", "object_send"} => call'[c].payload = SomePayload
    /\ call'[c].delay = 0 /\ call'[c].key # ""

\* and the concurrent calls of the proxy one handler and a payload
ConcurrentDispatch(c) ==
    /\ call'[c].name = "h1" /\ call'[c].key \in {NONE, "k1"}
    /\ call'[c].payload = SomePayload

\* answered by a JSON body or by the RuntimeError of a closed session
AsyncAnswer(c) ==
    \/ resp'[c] = TransportError("RuntimeError")
    \/ resp'[c] = Response(200, JsonType, ValidJson)

\* Coroutines sharing the RestateAsyncClient singleton and one
\* RestateAsyncService proxy on one event loop
NextAsync ==
    \E c \in Threads :
        \/ AsyncServiceSend(c) /\ ConcurrentCall(c)
        \/ AsyncObjectSend(c) /\ ConcurrentCall(c)
        \/ AsyncGenericAttach(c) /\ ConcurrentCall(c)
        \/ AsyncGenericOutput(c) /\ ConcurrentCall(c)
        \/ AsyncDeleteInvocation(c) /\ ConcurrentCall(c)
        \/ AsyncDispatch(c) /\ ConcurrentDispatch(c)
        \/ Respond(c) /\ AsyncAnswer(c)
        \/ Return(c)

SpecAsync == Init /\ [][NextAsync]_vars

\* Threads reading attributes of the singleton clients: a thread may be
\* preempted between the two statements of __getattr__
NextGetattr ==
    \E c \in Threads : GetattrSetUrl(c) \/ GetattrConstruct(c) \/ Return(c)

SpecGetattr == Init /\ [][NextGetattr]_vars

\* Threads calling the constructors of the singleton classes
NextSingleton ==
    \E t \in Threads : CtorCheck(t) \/ CtorConstruct(t) \/ CtorStore(t) \/ CtorReturn(t)

SpecSingleton == Init /\ [][NextSingleton]_vars

-----------------------------------------------------------------------------
(* Properties                                                              *)

SendEntries   == {"service_send", "object_send", "generic_send"}
AttachOutputForms == {"service_attach", "object_attach", "service_output", "object_output"}
ObjectForms   == {"object_attach", "object_output"}
Clients       == {SyncClient, AsyncClient}

\* A call that has issued its request
HasIssued(c) == pc[c] \in {"waiting", "done"} /\ nreq[c] > 0
\* A call that has run to its end
IsDone(c) == pc[c] = "done"

\* The part of a URL before its query string
QueryIndex(u) ==
    IF Contains(u, "?")
    THEN CHOOSE i \in 1..Len(u) :
            SubSeq(u, i, i) = "?" /\ \A j \in 1..(i - 1) : SubSeq(u, j, j) # "?"
    ELSE Len(u) + 1
PathOf(u) == SubSeq(u, 1, QueryIndex(u) - 1)

\* C1: two concurrent dynamic-dispatch calls through one shared proxy never
\* cross-contaminate: under every interleaving, the request a call issues
\* goes to the URL built from that call's own key and handler name.
C1_NoCrossContamination ==
    \A c \in Threads :
        (call[c].entry = "dispatch" /\ HasIssued(c))
            => req[c].url = DispatchUrl(call[c].obj, call[c].name, call[c].key)

\* C2: for each class with the Singleton metaclass, after any interleaving
\* of constructor calls at most one instance has ever been created and
\* every constructor call has returned that same instance.
C2_AtMostOneInstance ==
    \A cls \in Classes : n_created[cls] <= 1 /\ Cardinality(returned[cls]) <= 1

\* The arguments of an attach or output call that the claim calls invalid
MissingArgument(cl) ==
    \/ ~TruthyStr(cl.name)
    \/ ~TruthyStr(cl.handler)
    \/ ~TruthyStr(cl.idem)
    \/ cl.entry \in ObjectForms /\ ~TruthyStr(cl.key)

\* C3: attach and output (service and object forms, both clients) called
\* with an empty or missing service_name, handler or idempotency_key (or
\* key, for the object forms) fail with ValueError and issue no request,
\* in every client state, an absent session included.
C3_ValidationBeforeRequest ==
    \A c \in Threads :
        (call[c].entry \in AttachOutputForms /\ pc[c] # "idle" /\ MissingArgument(call[c]))
            => /\ nreq[c] = 0
               /\ outcome[c].kind = "raise"
               /\ outcome[c].exc = "ValueError"

\* A transport failure: a connection error, or a response whose status is
\* not 2xx
ConnectionFailures == {"ConnectionError", "RetryError", "ClientConnectionError", "TimeoutError"}
IsTransportFailure(r) ==
    \/ r.exc \in ConnectionFailures
    \/ r.exc = "" /\ ~(r.status >= 200 /\ r.status < 300)

\* The message of the error the transport layer signals for answer r
OriginalMessage(o, rq, r) ==
    IF r.exc # "" THEN ErrorText(r, rq.url)
    ELSE IF IsSync(o) THEN HTTPErrorText(r, rq.url) ELSE ClientResponseErrorText(r, rq.url)

\* C4: for every operation of the two clients (send, attach, output,
\* delete), a transport failure is re-signaled as a TerminalError carrying
\* the original error's message (the 404 answer to a delete, which C5
\* treats, is left out).
C4_TransportFailureIsTerminalError ==
    \A c \in Threads :
        (/\ IsDone(c) /\ call[c].obj \in Clients /\ nreq[c] > 0
         /\ IsTransportFailure(resp[c])
         /\ ~(op[c] = "delete_invocation" /\ resp[c].status = 404))
            => /\ outcome[c].kind = "raise"
               /\ outcome[c].exc = "TerminalError"
               /\ outcome[c].msg = OriginalMessage(call[c].obj, req[c], resp[c])

\* A delete_invocation call answered by a response of status 404
DeleteAnswered404(c) ==
    /\ IsDone(c) /\ op[c] = "delete_invocation" /\ nreq[c] > 0
    /\ resp[c].exc = "" /\ resp[c].status = 404

\* C5: delete_invocation, when the server answers 404, returns None and
\* does not raise, in the sync and in the async client.
C5_Delete404ReturnsNone ==
    \A c \in Threads : DeleteAnswered404(c) => outcome[c] = Returned(ValNone)

C5_Witness ==
    \E c \in Threads : DeleteAnswered404(c) /\ call[c].obj = AsyncClient /\ call[c].inv = "inv1"

\* C6: delete_invocation, on any failure other than a 404 response (another
\* error status, a connection error, or an unavailable session), raises a
\* TerminalError whose message includes the invocation id.
C6_DeleteFailureNamesInvocation ==
    \A c \in Threads :
        (/\ IsDone(c) /\ op[c] = "delete_invocation"
         /\ \/ nreq[c] = 0
            \/ resp[c].exc # ""
            \/ IsErrorStatus(resp[c].status) /\ resp[c].status # 404)
            => /\ outcome[c].kind = "raise"
               /\ outcome[c].exc = "TerminalError"
               /\ Contains(outcome[c].msg, call[c].inv)

\* The fixed message of a session that is not available
SessionMessage == "Failed to create async session"

\* The session is not there when the operation needs it: the sync client
\* has none, or the async session refuses the request with RuntimeError
SessionUnavailable(c) ==
    \/ call[c].obj = SyncClient /\ SessionAbsent(SyncClient)
    \/ call[c].obj = AsyncClient /\ resp[c].exc = "RuntimeError"

\* C7: an operation (send, attach, output, delete) called when the session
\* cannot be constructed or is unavailable signals a TerminalError with a
\* fixed generic message; it never returns normally.  (Calls whose
\* arguments fail the validation of C3 are left out.)
C7_NoSessionIsTerminalError ==
    \A c \in Threads :
        (/\ IsDone(c) /\ call[c].obj \in Clients /\ SessionUnavailable(c)
         /\ ~(call[c].entry \in AttachOutputForms /\ MissingArgument(call[c])))
            => /\ outcome[c].kind = "raise"
               /\ outcome[c].exc = "TerminalError"
               /\ outcome[c].msg = SessionMessage

\* A send call whose service and handler names are not empty
ValidSend(c) ==
    /\ HasIssued(c) /\ call[c].entry \in SendEntries
    /\ TruthyStr(call[c].name) /\ TruthyStr(call[c].handler)

\* The send was made with no key / with a key
SentWithoutKey(cl) ==
    cl.entry = "service_send" \/ (cl.entry = "generic_send" /\ cl.key = NONE)
SentWithKey(cl) ==
    cl.entry = "object_send" \/ (cl.entry = "generic_send" /\ TruthyStr(cl.key))

\* C8: for all non-empty service and handler names, send with no key goes
\* to {base}/{service}/{handler}/send and send with a key to
\* {base}/{service}/{key}/{handler}/send, before any delay suffix, in both
\* clients.
C8_SendUrl ==
    \A c \in Threads :
        ValidSend(c) =>
            LET cl == call[c]
                base == base_url(cl.obj)
            IN /\ SentWithoutKey(cl) =>
                    PathOf(req[c].url) = base \o "/" \o cl.name \o "/" \o cl.handler \o "/send"
               /\ SentWithKey(cl) =>
                    PathOf(req[c].url) =
                        base \o "/" \o cl.name \o "/" \o cl.key \o "/" \o cl.handler \o "/send"

C8_Witness ==
    \E c \in Threads :
        /\ ValidSend(c) /\ call[c].entry = "generic_send" /\ call[c].key = "k1"
        /\ call[c].obj = AsyncClient /\ call[c].delay = 10
        /\ req[c].url = "http://r/s1/k1/h1/send?delay=10s"

\* C9: the URL of every send request carries the suffix ?delay=<N>s exactly
\* once when delay_seconds = N > 0 and no delay suffix when
\* delay_seconds = 0.
C9_DelaySuffix ==
    \A c \in Threads :
        (HasIssued(c) /\ call[c].entry \in SendEntries) =>
            /\ call[c].delay > 0 =>
                  /\ Count(req[c].url, "?delay=") = 1
                  /\ Count(req[c].url, "?") = 1
                  /\ EndsWith(req[c].url, "?delay=" \o IntStr(call[c].delay) \o "s")
            /\ call[c].delay = 10 => EndsWith(req[c].url, "/send?delay=10s")
            /\ call[c].delay = 0 =>
                  /\ Count(req[c].url, "delay") = 0
                  /\ EndsWith(req[c].url, "/send")

C9_Witness ==
    \E c \in Threads :
        /\ HasIssued(c) /\ call[c].entry = "object_send" /\ call[c].obj = SyncClient
        /\ call[c].delay = 10
        /\ req[c].url = "http://r/s1/k1/h1/send?delay=10s"

\* C10: calling an attribute that is no method of a service proxy issues a
\* request to {base}/{name} when no key is passed and to
\* {base}/{key}/{name} when a key is passed, with POST whenever a payload
\* is given (an empty mapping included) and GET when none is given.
C10_DispatchRequest ==
    \A c \in Threads :
        (call[c].entry = "dispatch" /\ HasIssued(c)) =>
            LET cl == call[c]
                base == base_url(cl.obj)
            IN /\ req[c].url = IF cl.key = NONE THEN base \o "/" \o cl.name
                               ELSE base \o "/" \o cl.key \o "/" \o cl.name
               /\ req[c].method = IF cl.payload.given THEN "POST" ELSE "GET"

\* The operations that decode the body of the response
DecodingOps == {"sync_dispatch", "async_dispatch", "service_attach", "object_attach",
                "service_output", "object_output", "delete_invocation"}

\* A decoding call answered by a successful response that announces JSON
\* and carries a non-empty body that is no JSON
AnsweredMalformedJson(c) ==
    /\ IsDone(c) /\ nreq[c] > 0 /\ op[c] \in DecodingOps
    /\ resp[c].exc = "" /\ resp[c].status = 200
    /\ resp[c].ctype = JsonType
    /\ resp[c].body # "" /\ ~IsValidJson(resp[c].body)

\* C11: in every operation that decodes a response body (dynamic dispatch,
\* attach, output, delete; both clients), a successful application/json
\* response whose non-empty body is not valid JSON is returned as the raw
\* text and no exception is raised.
C11_MalformedJsonIsText ==
    \A c \in Threads :
        AnsweredMalformedJson(c) => outcome[c] = Returned(ValText(resp[c].body))

GenericEntries == {"generic_send", "generic_attach", "generic_output"}

\* A key is supplied when the key argument is a non-empty string; None and
\* the empty string are no key
KeySupplied(cl) == cl.key # NONE /\ cl.key # ""

\* The form a generic call stands for
FormOf(cl) ==
    CASE cl.entry = "generic_send" ->
            IF KeySupplied(cl) THEN "object_send" ELSE "service_send"
      [] cl.entry = "generic_attach" ->
            IF KeySupplied(cl) THEN "object_attach" ELSE "service_attach"
      [] cl.entry = "generic_output" ->
            IF KeySupplied(cl) THEN "object_output" ELSE "service_output"

\* The request of each form, as the HTTP surface lists it
FormPath(cl) ==
    LET f == FormOf(cl)
        base == base_url(cl.obj)
        delay == IF cl.delay > 0 THEN "?delay=" \o IntStr(cl.delay) \o "s" ELSE ""
    IN CASE f = "service_send" ->
                base \o "/" \o cl.name \o "/" \o cl.handler \o "/send" \o delay
         [] f = "object_send" ->
                base \o "/" \o cl.name \o "/" \o cl.key \o "/" \o cl.handler \o "/send" \o delay
         [] f \in {"service_attach", "service_output"} ->
                base \o "/restate/invocation/" \o cl.name \o "/" \o cl.handler \o "/" \o cl.idem
                    \o (IF f = "service_attach" THEN "/attach" ELSE "/output")
         [] f \in {"object_attach", "object_output"} ->
                base \o "/restate/invocation/" \o cl.name \o "/" \o cl.key \o "/" \o cl.handler
                    \o "/" \o cl.idem \o (IF f = "object_attach" THEN "/attach" ELSE "/output")

\* The ValueError of each form for the arguments of the call
FormValidation(cl) ==
    IF FormOf(cl) \in {"object_attach", "object_output"}
    THEN ObjectValidation(cl.name, cl.handler, cl.key, cl.idem)
    ELSE IF FormOf(cl) \in {"service_attach", "service_output"}
         THEN ServiceValidation(cl.name, cl.handler, cl.idem)
         ELSE ""

\* C12: for send, attach and output, the generic form behaves exactly as
\* the object form when a key is supplied and as the service form when no
\* key is supplied (None or the empty string), for all argument values:
\* the body of that form runs, with the same request URL, the same result
\* and the same error.
C12_GenericIsForm ==
    \A c \in Threads :
        (pc[c] # "idle" /\ call[c].entry \in GenericEntries) =>
            LET cl == call[c] IN
            /\ op[c] = FormOf(cl)
            /\ HasIssued(c) =>
                  /\ req[c].url = FormPath(cl)
                  /\ req[c].method = IF cl.entry = "generic_send" THEN "POST" ELSE "GET"
            /\ (IsDone(c) /\ nreq[c] > 0) =>
                  outcome[c] = Complete(cl.obj, FormOf(cl), req[c], resp[c])
            /\ (IsDone(c) /\ nreq[c] = 0) =>
                  \/ cl.obj = SyncClient /\ SessionAbsent(SyncClient)
                        /\ outcome[c] = Returned(ValNone)
                  \/ FormValidation(cl) # ""
                        /\ outcome[c] = Raised("ValueError", FormValidation(cl))

C12_Witness ==
    \E c \in Threads :
        /\ IsDone(c) /\ call[c].entry = "generic_output" /\ call[c].obj = AsyncClient
        /\ call[c].key = "k1" /\ op[c] = "object_output"
        /\ req[c].url = "http://r/restate/invocation/s1/k1/h1/i1/output"
        /\ outcome[c] = Returned(ValJson(ValidJson))

\* C13: a send request carries the idempotency-key header, with exactly the
\* value the caller supplied, if and only if the caller supplied an
\* idempotency key (a non-empty string); the key is not kept in the state
\* of the client, so that a later send without a key carries no such header.
C13_IdempotencyHeader ==
    /\ \A c \in Threads :
          (HasIssued(c) /\ call[c].entry \in SendEntries) =>
              /\ TruthyStr(call[c].idem) => req[c].idem = call[c].idem
              /\ ~TruthyStr(call[c].idem) => req[c].idem = NONE
    /\ \A o \in Clients : default_headers[o] = NONE

C13_Witness ==
    \E c \in Threads :
        /\ HasIssued(c) /\ call[c].entry = "service_send" /\ call[c].obj = AsyncClient
        /\ call[c].idem = "i1" /\ req[c].idem = "i1" /\ req[c].method = "POST"

\* The arguments of the call fail the validation of the method that runs
FailsValidation(c) ==
    IF op[c] \in {"object_attach", "object_output"}
    THEN ObjectValidation(call[c].name, call[c].handler, call[c].key, call[c].idem) # ""
    ELSE IF op[c] \in {"service_attach", "service_output"}
         THEN ServiceValidation(call[c].name, call[c].handler, call[c].idem) # ""
         ELSE FALSE

\* The object called has a session when the request is due: the sync
\* objects hold one or not, the async ones build theirs in the call
SessionAvailable(c) == IsSync(call[c].obj) => ~SessionAbsent(call[c].obj)

\* A call that is past the point where its request is issued
PastRequest(c) == pc[c] \in {"waiting", "done"}

C15_SessionBuiltBeforeRequest ==
    \A c \in Threads :
        (PastRequest(c) /\ call[c].obj \in Clients /\ ~FailsValidation(c)) =>
            /\ session[call[c].obj] # 0
            /\ nreq[c] = 1
            /\ req[c].sess = session[call[c].obj]

AsyncObjects == {AsyncClient, AsyncProxy}

\* C16: on one async client or async service proxy, once an async session
\* exists every later operation reuses it: across any sequence and any
\* interleaving of concurrent async operations on the instance at most one
\* async session is ever constructed, the instance keeps holding it, and
\* every request goes through it.
C16_AsyncSessionReused ==
    /\ \A o \in AsyncObjects :
          /\ n_sessions[o] <= 1
          /\ session[o] = n_sessions[o]
    /\ \A c \in Threads :
          (HasIssued(c) /\ call[c].obj \in AsyncObjects) => req[c].sess = 1

C16_Witness ==
    /\ session[SyncClient] = 0
    /\ n_sessions[AsyncClient] = 1
    /\ \A c \in Threads :
          /\ pc[c] = "waiting" /\ call[c].obj = AsyncClient /\ req[c].sess = 1
    /\ \E c, d \in Threads : call[c].entry # call[d].entry

\* An async call of the given methods answered by a response
AsyncAnswered(c, ops) ==
    /\ IsDone(c) /\ call[c].obj = AsyncClient /\ nreq[c] > 0
    /\ op[c] \in ops /\ resp[c].exc = ""

\* The body as the async output decodes it: JSON when the content type
\* announces it (a blank body decodes to None, a malformed one to its
\* text), else the text, else an empty mapping
DecodedBody(r) ==
    IF r.ctype = JsonType
    THEN IF r.body = "" THEN ValNone
         ELSE IF r.body = ValidJson THEN ValJson(r.body) ELSE ValText(r.body)
    ELSE IF r.body # "" THEN ValText(r.body) ELSE ValDict

\* C17: in the async client, output (service and object forms) does not
\* check the status of the response before decoding: for a response of any
\* status, 4xx and 5xx included, it returns the decoded body and raises no
\* error, whereas async attach answered by a 4xx or 5xx response raises a
\* TerminalError.
C17_AsyncOutputIgnoresStatus ==
    \A c \in Threads :
        /\ AsyncAnswered(c, {"service_output", "object_output"}) =>
              outcome[c] = Returned(DecodedBody(resp[c]))
        /\ (AsyncAnswered(c, {"service_attach", "object_attach"})
                /\ resp[c].status >= 400) =>
              /\ outcome[c].kind = "raise"
              /\ outcome[c].exc = "TerminalError"

C17_Witness ==
    \E c \in Threads :
        /\ AsyncAnswered(c, {"object_output"})
        /\ resp[c] = Response(500, JsonType, ValidJson)
        /\ outcome[c] = Returned(ValJson(ValidJson))

\* C18: every attribute access name on a singleton client (RestateClient
\* or RestateAsyncClient) returns a service proxy whose base URL is exactly
\* {client base}/{name}, under every interleaving of concurrent accesses
\* with different names on the same client.
C18_ProxyOfOwnName ==
    \A c \in Threads :
        (IsDone(c) /\ call[c].entry = "getattr") =>
            outcome[c] = Returned(ValProxy(base_url(call[c].obj) \o "/" \o call[c].name))

====
